---------------------------- MODULE Spec2Model ----------------------------
(***************************************************************************)
(* Model of realtime_fraud_server.py: the /shopify webhook handler, its    *)
(* HMAC check, the note/UTM normalisers, the geo resolver, the historical  *)
(* lookups against shopify_orders_marketing, the additive classifier and   *)
(* the per-line-item insert loop.                                          *)
(*                                                                         *)
(* Python strings are sequences of one-character strings, so that strip,   *)
(* lower, split, substring search and digit filtering are computed, not    *)
(* assumed.  None and the empty string are both the empty sequence: the    *)
(* program only ever tests such values for truthiness.                     *)
(***************************************************************************)
EXTENDS Integers, Sequences, FiniteSets, TLC

\* ------------------------------------------------------------------ bounds
MaxDeliveries == 2
MaxScoringDeliveries == 2
MaxBurstDeliveries == 14
MaxTime == 2

\* ------------------------------------------------------- program constants
BurstThreshold == 12
BurstWindow == 2
TelcoPoints == 10
PlatformPoints == 15
UtmPoints == 15
SeenIpPoints == 25
SeenPhonePoints == 35
BurstPoints == 30
EntropyPoints == 20
CountryPoints == 40
FraudFloor == 80
TelecomFloor == 60
PlatformFloor == 30

\* ----------------------------------------------------------------- strings
None == <<>>

Truthy(x) == x # None

Or(a, b) == IF Truthy(a) THEN a ELSE b

UpperAlpha ==
  <<"A","B","C","D","E","F","G","H","I","J","K","L","M",
    "N","O","P","Q","R","S","T","U","V","W","X","Y","Z">>

LowerAlpha ==
  <<"a","b","c","d","e","f","g","h","i","j","k","l","m",
    "n","o","p","q","r","s","t","u","v","w","x","y","z">>

LowerChar(c) ==
  IF \E i \in 1..26 : UpperAlpha[i] = c
  THEN LowerAlpha[CHOOSE i \in 1..26 : UpperAlpha[i] = c]
  ELSE c

\* str.lower()
Lower(s) == [i \in 1..Len(s) |-> LowerChar(s[i])]

\* str.replace(a, b) for one-character a and b
Replace(s, a, b) == [i \in 1..Len(s) |-> IF s[i] = a THEN b ELSE s[i]]

IsSpace(c) == c \in {" ", "\t", "\n"}

IsDigit(c) == c \in {"0","1","2","3","4","5","6","7","8","9"}

RECURSIVE LStrip(_)
LStrip(s) == IF s # <<>> /\ IsSpace(Head(s)) THEN LStrip(Tail(s)) ELSE s

RECURSIVE RStrip(_)
RStrip(s) ==
  IF s # <<>> /\ IsSpace(s[Len(s)]) THEN RStrip(SubSeq(s, 1, Len(s) - 1)) ELSE s

\* str.strip()
Strip(s) == RStrip(LStrip(s))

\* needle in hay
Contains(hay, needle) ==
  \E i \in 0..(Len(hay) - Len(needle)) : SubSeq(hay, i + 1, i + Len(needle)) = needle

\* str.startswith
StartsWith(s, p) == Len(s) >= Len(p) /\ SubSeq(s, 1, Len(p)) = p

\* index of the first element of s satisfying c = ch, or 0
RECURSIVE FindFrom(_, _, _)
FindFrom(s, ch, i) ==
  IF i > Len(s) THEN 0 ELSE IF s[i] = ch THEN i ELSE FindFrom(s, ch, i + 1)

\* str.split(ch): the pieces between occurrences of ch, empty pieces kept
RECURSIVE SplitOn(_, _)
SplitOn(s, ch) ==
  LET i == FindFrom(s, ch, 1) IN
  IF i = 0 THEN <<s>>
  ELSE <<SubSeq(s, 1, i - 1)>> \o SplitOn(SubSeq(s, i + 1, Len(s)), ch)

\* str.split(): whitespace-delimited words, no empty pieces
RECURSIVE SplitWords(_)
SplitWords(s) ==
  LET t == LStrip(s) IN
  IF t = <<>> THEN <<>>
  ELSE LET n == CHOOSE k \in 1..Len(t) :
                  /\ \A j \in 1..k : ~IsSpace(t[j])
                  /\ (k = Len(t) \/ IsSpace(t[k + 1]))
       IN <<SubSeq(t, 1, n)>> \o SplitWords(SubSeq(t, n + 1, Len(t)))

Range(s) == {s[i] : i \in 1..Len(s)}

\* dict.get(k) with the default None
Get(d, k) == IF k \in DOMAIN d THEN d[k] ELSE None

\* d[k] = v
Put(d, k, v) == [x \in (DOMAIN d) \cup {k} |-> IF x = k THEN v ELSE d[x]]

EmptyDict == [x \in {} |-> None]

\* ------------------------------------------------------------ string data
S_phone == <<"p","h","o","n","e">>
S_country == <<"c","o","u","n","t","r","y">>
S_ip_address == <<"i","p","_","a","d","d","r","e","s","s">>
S_address1 == <<"a","d","d","r","e","s","s","1">>
S_address2 == <<"a","d","d","r","e","s","s","2">>
S_utm_source == <<"u","t","m","_","s","o","u","r","c","e">>
S_utm_ == <<"u","t","m","_">>
S_facebook == <<"f","a","c","e","b","o","o","k">>
S_instagram == <<"i","n","s","t","a","g","r","a","m">>
S_unknown == <<"u","n","k","n","o","w","n">>

TELCOS ==
  { <<"j","i","o">>, <<"a","i","r","t","e","l">>,
    <<"v","o","d","a","f","o","n","e">>, <<"i","d","e","a">>,
    <<"b","s","n","l">>, <<"t","a","t","a">> }

PLATFORMS ==
  { <<"m","e","t","a">>, S_facebook, <<"g","o","o","g","l","e">>,
    <<"w","h","a","t","s","a","p","p">>,
    <<"c","l","o","u","d","f","l","a","r","e">>,
    <<"a","m","a","z","o","n">>, <<"a","w","s">> }


\* ------------------------------------------------------------ SHOPIFY HMAC
SHOPIFY_SECRET == "shopify-secret"

\* hmac.new(key, data, sha256).digest(): an ideal MAC, equal only for equal key
\* and equal data
HmacSha256(key, data) == [key |-> key, msg |-> data]

\* base64.b64encode(digest).decode(): injective, a header is a one-element sequence
B64(d) == <<d>>

\* verify with the digest comparison dropped: any header present is accepted
verifyAnyHeader(data, hmac_header) == Truthy(hmac_header)

verify(data, hmac_header) ==
  IF ~Truthy(hmac_header) THEN FALSE
  ELSE B64(HmacSha256(SHOPIFY_SECRET, data)) = hmac_header

\* ---------------------------------------------------------------- HELPERS
\* str(x).strip() if x else None
clean(x) == IF Truthy(x) THEN Strip(x) ELSE None

\* "".join(c for c in str(x) if c.isdigit()) if x else None
digits(x) == IF Truthy(x) THEN SelectSeq(x, IsDigit) ELSE None

\* urlparse(url).query: what follows the first "?" up to a "#"
UrlQuery(url) ==
  LET nofrag == SplitOn(url, "#")[1]
      q == FindFrom(nofrag, "?", 1)
  IN IF q = 0 THEN <<>> ELSE SubSeq(nofrag, q + 1, Len(nofrag))

\* parse_qs(q): the name=value fields of q in order; fields with a blank value or
\* without "=" are dropped
QueryPairs(q) ==
  LET fields == SplitOn(q, "&")
      Pair(f) == LET e == FindFrom(f, "=", 1)
                 IN <<SubSeq(f, 1, e - 1), SubSeq(f, e + 1, Len(f))>>
      Ok(f) == FindFrom(f, "=", 1) > 0 /\ Pair(f)[2] # <<>>
      kept == SelectSeq(fields, Ok)
  IN [i \in 1..Len(kept) |-> Pair(kept[i])]

\* {k: v[0] for k, v in parse_qs(q).items() if k.startswith("utm_")}
extract_utms(url) ==
  IF ~Truthy(url) THEN EmptyDict
  ELSE LET ps == QueryPairs(UrlQuery(url))
           keys == {ps[i][1] : i \in 1..Len(ps)} 
           First(k) == ps[CHOOSE i \in 1..Len(ps) :
                             ps[i][1] = k /\ \A j \in 1..(i - 1) : ps[j][1] # k][2]
       IN [k \in {x \in keys : StartsWith(x, S_utm_)} |-> First(k)]

RECURSIVE ParseNotesFrom(_, _)
ParseNotesFrom(attrs, out) ==
  IF attrs = <<>> THEN out
  ELSE LET a == Head(attrs)
           k == Replace(Lower(Get(a, "name")), " ", "_")
           v == clean(Get(a, "value"))
       IN ParseNotesFrom(Tail(attrs), IF Truthy(v) THEN Put(out, k, v) ELSE out)

parse_notes(attrs) == ParseNotesFrom(attrs, EmptyDict)

\* -------------------------------------------------------------------- GEO
\* one dotted-quad field as ipaddress accepts it: 1 to 3 decimal digits, no
\* leading zero, at most 255
DigitValue(c) == CHOOSE n \in 0..9 : <<"0","1","2","3","4","5","6","7","8","9">>[n + 1] = c

RECURSIVE Decimal(_)
Decimal(s) == IF s = <<>> THEN 0 ELSE 10 * Decimal(SubSeq(s, 1, Len(s) - 1)) + DigitValue(s[Len(s)])

IsOctet(s) ==
  /\ Len(s) \in 1..3
  /\ \A i \in 1..Len(s) : IsDigit(s[i])
  /\ (Len(s) > 1 => s[1] # "0")
  /\ Decimal(s) <= 255

\* ipaddress.ip_address(ip) does not raise (dotted-quad literals; None raises)
IsIpAddress(ip) ==
  /\ Truthy(ip)
  /\ LET parts == SplitOn(ip, ".") IN Len(parts) = 4 /\ \A i \in 1..4 : IsOctet(parts[i])

IP_JIO == <<"1",".","1",".","1",".","1">>
IP_AWS == <<"2",".","2",".","2",".","2">>
IP_NOCOUNTRY == <<"3",".","3",".","3",".","3">>
IP_NOASN == <<"4",".","4",".","4",".","4">>
IP_MISS == <<"5",".","5",".","5",".","5">>
IP_BAD == <<"9","9","9",".","1",".","1">>

C_India == <<"I","n","d","i","a">>
C_INDIA == <<"I","N","D","I","A">>
C_Nepal == <<"N","e","p","a","l">>
ORG_JIO == <<"R","e","l","i","a","n","c","e"," ","J","i","o">>
ORG_AWS == <<"A","m","a","z","o","n",".","c","o","m">>
ORG_ISP == <<"A","C","T"," ","N","e","t">>

\* the GeoLite2-City database: country name and most specific subdivision of the
\* addresses it holds
CITY_DB ==
  [ip \in {IP_JIO, IP_AWS, IP_NOCOUNTRY, IP_NOASN} |->
     IF ip = IP_JIO THEN [country |-> C_India, state |-> <<"G","J">>]
     ELSE IF ip = IP_AWS THEN [country |-> C_Nepal, state |-> None]
     ELSE IF ip = IP_NOCOUNTRY THEN [country |-> None, state |-> None]
     ELSE [country |-> C_India, state |-> None]]

\* the GeoLite2-ASN database: autonomous_system_organization
ASN_DB ==
  [ip \in {IP_JIO, IP_AWS, IP_NOCOUNTRY} |->
     IF ip = IP_JIO THEN ORG_JIO ELSE IF ip = IP_AWS THEN ORG_AWS ELSE ORG_ISP]

NoGeo == [found |-> FALSE, country |-> None, state |-> None, org |-> None]

geo(ip) ==
  IF ~IsIpAddress(ip) \/ ip \notin DOMAIN CITY_DB \/ ip \notin DOMAIN ASN_DB THEN NoGeo
  ELSE [found |-> TRUE, country |-> CITY_DB[ip].country, state |-> CITY_DB[ip].state,
        org |-> Lower(Or(ASN_DB[ip], <<>>))]


\* ------------------------------------------------------------------- state
VARIABLES
  table,        \* shopify_orders_marketing: the persisted rows
  uniqueRowId,  \* whether the table's schema declares row_id unique
  now,          \* the database clock NOW(), in minutes
  delivered,    \* webhook deliveries received so far
  h             \* per worker process: the frame of the request it is handling

vars == <<table, uniqueRowId, now, delivered, h>>

\* the server processes: inside one process the handler runs from verify to its
\* return without a suspension point (the database calls are synchronous), so a
\* process handles one request at a time; processes interleave at each statement
\* they send to the database
Workers == {1, 2}

\* ------------------------------------------------------------ FRAUD BRAIN
\* SELECT 1 FROM shopify_orders_marketing WHERE {field}=%s LIMIT 1
seen_before(field, value) ==
  IF ~Truthy(value) THEN FALSE ELSE \E r \in table : r[field] = value

\* SELECT COUNT(*) ... WHERE date_time > NOW() - interval '2 minutes'
WindowCount == Cardinality({r \in table : r.date_time > now - BurstWindow})

burstAtLeast(count) == count >= BurstThreshold

burst(count) == count > BurstThreshold

\* the entropy as the fraction <<distinct words, words>>
address_entropy(addr) ==
  IF ~Truthy(addr) THEN <<0, 1>>
  ELSE LET words == SplitWords(Lower(addr))
       IN <<Cardinality(Range(words)), IF Len(words) > 1 THEN Len(words) ELSE 1>>

\* address_entropy(addr) < 0.5
LowEntropy(addr) == LET e == address_entropy(addr) IN 2 * e[1] < e[2]

OrgOf(ipg) == IF ipg.found THEN ipg.org ELSE <<>>

TelcoRisk(ipg) == IF \E t \in TELCOS : Contains(OrgOf(ipg), t) THEN TelcoPoints ELSE 0

PlatformRisk(ipg) ==
  IF \E p \in PLATFORMS : Contains(OrgOf(ipg), p) THEN PlatformPoints ELSE 0

UtmRisk(utm) == IF utm \in {S_facebook, S_instagram} THEN UtmPoints ELSE 0

SeenIpRisk(seen_ip) == IF seen_ip THEN SeenIpPoints ELSE 0

SeenPhoneRisk(seen_phone) == IF seen_phone THEN SeenPhonePoints ELSE 0

BurstRisk(burst_hit) == IF burst_hit THEN BurstPoints ELSE 0

AddrOf(note) == Or(Get(note, S_address1), <<>>) \o <<" ">> \o Or(Get(note, S_address2), <<>>)

EntropyRiskNonBlank(note) ==
  IF Strip(AddrOf(note)) # <<>> /\ LowEntropy(AddrOf(note)) THEN EntropyPoints ELSE 0

EntropyRisk(note) == IF LowEntropy(AddrOf(note)) THEN EntropyPoints ELSE 0

CountryRisk(note, ipg) ==
  IF /\ Truthy(Get(note, S_country))
     /\ ipg.found
     /\ Lower(Get(note, S_country)) # Lower(Or(ipg.country, <<>>))
  THEN CountryPoints ELSE 0

Bucket(risk) ==
  IF risk >= FraudFloor THEN "REAL_FRAUD"
  ELSE IF risk >= TelecomFloor THEN "TELECOM"
  ELSE IF risk >= PlatformFloor THEN "PLATFORM"
  ELSE "CLEAN"

\* classify, given what its three queries returned
classify(note, utm, ipg, seen_ip, seen_phone, burst_hit) ==
  LET risk == TelcoRisk(ipg) + PlatformRisk(ipg) + UtmRisk(utm)
              + SeenIpRisk(seen_ip) + SeenPhoneRisk(seen_phone)
              + BurstRisk(burst_hit) + EntropyRisk(note) + CountryRisk(note, ipg)
  IN [bucket |-> Bucket(risk), score |-> risk]

\* --------------------------------------------------------------- FLATTENER
\* build_row raises KeyError
BuildRowFails(order, li) ==
  \/ ~({"id", "created_at"} \subseteq DOMAIN order)
  \/ ~({"product_id", "variant_id"} \subseteq DOMAIN li)

RowId(store, order, li) ==
  store \o <<"_">> \o order.id \o <<"_">> \o li.product_id \o <<"_">> \o li.variant_id

\* the columns the handler reads back or stamps; the remaining columns are
\* copies of order and line-item fields
build_row(order, li, store) ==
  LET note == parse_notes(Get(order, "note_attributes"))
      landing == Or(Get(order, "landing_site_ref"), Get(order, "landing_site"))
      utms == extract_utms(landing)
  IN [row_id |-> RowId(store, order, li),
      date_time |-> order.created_at,
      order_id |-> order.id,
      phone |-> digits(Get(note, S_phone)),
      country |-> Get(note, S_country),
      product_id |-> li.product_id,
      variant_id |-> li.variant_id,
      utm_source |-> Or(Get(note, S_utm_source), Get(utms, S_utm_source)),
      ip_address |-> Get(note, S_ip_address),
      store_name |-> store]


\* ----------------------------------------------------------------- WEBHOOK
\* the handler's frame before a request: no local is bound
Idle ==
  [pc |-> "idle", delivery |-> 0, raw |-> None, hmac |-> None, shop |-> None,
   store |-> None, order |-> None, note |-> EmptyDict, utm |-> None, ip |-> None,
   ipg |-> NoGeo, seen_ip |-> FALSE, seen_phone |-> FALSE, count |-> 0,
   bucket |-> "", score |-> 0, idx |-> 0, error |-> "",
   ops |-> {}, phone_known |-> FALSE]

\* the request body as bytes, and req.json() of it
Body(order) == [json |-> order]

Json(raw) == raw.json

Terminal == {"200", "401", "500"}

Init ==
  /\ table = {}
  /\ uniqueRowId \in BOOLEAN
  /\ now = 0
  /\ delivered = 0
  /\ h = [w \in Workers |-> Idle]

\* a delivery reaches worker w: raw = await req.body(), with the two headers
Receive(w, order, hmac_header, shop_header) ==
  /\ h[w].pc = "idle"
  /\ delivered' = delivered + 1
  /\ h' = [h EXCEPT ![w] = [Idle EXCEPT !.pc = "body", !.delivery = delivered + 1,
                                        !.raw = Body(order), !.hmac = hmac_header,
                                        !.shop = shop_header]]
  /\ UNCHANGED <<table, uniqueRowId, now>>

\* verify, then store, req.json(), parse_notes, landing, utm and ip
VerifyAndParse(w) ==
  /\ h[w].pc = "body"
  /\ h' = [h EXCEPT ![w] =
       IF ~verify(h[w].raw, h[w].hmac) THEN [@ EXCEPT !.pc = "401"]
       ELSE LET order == Json(h[w].raw)
                note == parse_notes(Get(order, "note_attributes"))
                landing == Or(Get(order, "landing_site_ref"), Get(order, "landing_site"))
            IN [@ EXCEPT !.pc = "geo",
                         !.store = Or(h[w].shop, S_unknown),
                         !.order = order,
                         !.note = note,
                         !.utm = Or(Get(note, S_utm_source),
                                    Get(extract_utms(landing), S_utm_source)),
                         !.ip = Get(note, S_ip_address),
                         !.ops = @ \cup {"json"}]]
  /\ UNCHANGED <<table, uniqueRowId, now, delivered>>

\* ipg = geo(ip)
GeoLookup(w) ==
  /\ h[w].pc = "geo"
  /\ h' = [h EXCEPT ![w] = [@ EXCEPT !.pc = "seen_ip", !.ipg = geo(h[w].ip),
                                     !.ops = @ \cup {"geo"}]]
  /\ UNCHANGED <<table, uniqueRowId, now, delivered>>

\* classify, first query: seen_before("ip_address", note.get("ip_address"))
SeenIp(w) ==
  /\ h[w].pc = "seen_ip"
  /\ h' = [h EXCEPT ![w] =
       [@ EXCEPT !.pc = "seen_phone",
                 !.seen_ip = seen_before("ip_address", Get(h[w].note, S_ip_address)),
                 !.ops = @ \cup {"seen_before"}]]
  /\ UNCHANGED <<table, uniqueRowId, now, delivered>>

\* classify, second query: seen_before("phone", note.get("phone")); phone_known
\* records whether a stored row holds the event's normalized phone at this moment
SeenPhone(w) ==
  /\ h[w].pc = "seen_phone"
  /\ h' = [h EXCEPT ![w] =
       [@ EXCEPT !.pc = "burst",
                 !.seen_phone = seen_before("phone", Get(h[w].note, S_phone)),
                 !.phone_known = /\ Truthy(digits(Get(h[w].note, S_phone)))
                                 /\ \E r \in table :
                                      r.phone = digits(Get(h[w].note, S_phone)),
                 !.ops = @ \cup {"seen_before"}]]
  /\ UNCHANGED <<table, uniqueRowId, now, delivered>>

\* a lock that would serialise check-then-insert: no other worker is between its
\* own burst check and its return
BurstAndScoreLocked(w) ==
  /\ \A v \in Workers \ {w} : h[v].pc # "insert"
  /\ h[w].pc = "burst"
  /\ LET c == WindowCount
         r == classify(h[w].note, h[w].utm, h[w].ipg, h[w].seen_ip, h[w].seen_phone, burst(c))
     IN h' = [h EXCEPT ![w] = [@ EXCEPT !.pc = "insert", !.count = c, !.idx = 1,
                                        !.bucket = r.bucket, !.score = r.score,
                                        !.ops = @ \cup {"burst"}]]
  /\ UNCHANGED <<table, uniqueRowId, now, delivered>>

\* classify, third query burst(), and the rest of classify: bucket, score
BurstAndScore(w) ==
  /\ h[w].pc = "burst"
  /\ LET c == WindowCount
         r == classify(h[w].note, h[w].utm, h[w].ipg, h[w].seen_ip, h[w].seen_phone, burst(c))
     IN h' = [h EXCEPT ![w] = [@ EXCEPT !.pc = "insert", !.count = c, !.idx = 1,
                                        !.bucket = r.bucket, !.score = r.score,
                                        !.ops = @ \cup {"burst"}]]
  /\ UNCHANGED <<table, uniqueRowId, now, delivered>>

\* the assessment recomputed for each line item against the table as it is now
StampsPerItem(w) ==
  LET r == classify(h[w].note, h[w].utm, h[w].ipg,
                    seen_before("ip_address", Get(h[w].note, S_ip_address)),
                    seen_before("phone", Get(h[w].note, S_phone)),
                    burst(WindowCount))
  IN [location_match |-> FALSE, ip_checked |-> h[w].ipg.found,
      fraud_bucket |-> r.bucket, risk_score |-> r.score]

\* row["location_match"], row["ip_checked"], row["fraud_bucket"], row["risk_score"]
Stamps(w) ==
  [location_match |-> FALSE, ip_checked |-> h[w].ipg.found,
   fraud_bucket |-> h[w].bucket, risk_score |-> h[w].score]

\* one pass of "for li in order['line_items']": build_row, the stamps, the INSERT;
\* ctid tells apart the rows of separate inserts, as the table's physical rows are
InsertRow(w) ==
  /\ h[w].pc = "insert"
  /\ LET f == h[w]
         Raise(e) == /\ h' = [h EXCEPT ![w] = [@ EXCEPT !.pc = "500", !.error = e]]
                     /\ UNCHANGED table
     IN IF "line_items" \notin DOMAIN f.order THEN Raise("KeyError")
        ELSE IF f.idx > Len(f.order.line_items)
        THEN /\ h' = [h EXCEPT ![w] = [@ EXCEPT !.pc = "200"]]
             /\ UNCHANGED table
        ELSE LET li == f.order.line_items[f.idx] IN
             IF BuildRowFails(f.order, li) THEN Raise("KeyError")
             ELSE LET row == build_row(f.order, li, f.store) @@ Stamps(w)
                             @@ [ctid |-> <<f.delivery, f.idx>>]
                  IN IF uniqueRowId /\ \E r \in table : r.row_id = row.row_id
                     THEN Raise("UniqueViolation")
                     ELSE /\ table' = table \cup {row}
                          /\ h' = [h EXCEPT ![w] = [@ EXCEPT !.idx = @ + 1,
                                                             !.ops = @ \cup {"insert"}]]
  /\ UNCHANGED <<uniqueRowId, now, delivered>>

\* the response leaves; the worker takes the next request
Respond(w) ==
  /\ h[w].pc \in Terminal
  /\ h' = [h EXCEPT ![w] = Idle]
  /\ UNCHANGED <<table, uniqueRowId, now, delivered>>

\* a minute passes on the database clock
Tick ==
  /\ now < MaxTime
  /\ now' = now + 1
  /\ UNCHANGED <<table, uniqueRowId, delivered, h>>


\* ------------------------------------------------------------------ inputs
Attr(name, value) == [name |-> name, value |-> value]

ItemA == [product_id |-> <<"1">>, variant_id |-> <<"1">>]
ItemB == [product_id |-> <<"1">>, variant_id |-> <<"2">>]
ItemNoVariant == [product_id |-> <<"1">>]

N_Phone == <<"P","h","o","n","e">>
N_Country == <<"C","o","u","n","t","r","y">>
N_IpAddress == <<"I","P"," ","a","d","d","r","e","s","s">>
N_Address1 == <<"A","d","d","r","e","s","s","1">>
N_UtmSource == <<"u","t","m","_","s","o","u","r","c","e">>

OrderOf(id, notes, items) ==
  [id |-> id, created_at |-> now, note_attributes |-> notes, line_items |-> items]

OrderWithoutItems(id, notes) == [id |-> id, created_at |-> now, note_attributes |-> notes]

\* the signature headers a sender can attach to a body: none, the shop's, and one
\* made with the shop's secret for another body
HmacHeaders(order) ==
  { None,
    B64(HmacSha256(SHOPIFY_SECRET, Body(order))),
    B64(HmacSha256(SHOPIFY_SECRET, Body([order EXCEPT !.id = <<"0">>]))) }

ShopHeaders == {None, <<"s","1">>}

\* deliveries of the handler specification: a plain and a formatted phone, orders
\* of two line items, a second line item without variant_id, no line_items at all
PhoneNotes ==
  { <<Attr(N_Phone, <<"9","8">>)>>,
    <<Attr(N_Phone, <<"9","-","8">>)>> }

OrderIds == {<<"7">>}

Orders ==
  {OrderOf(id, n, items) :
     id \in OrderIds, n \in PhoneNotes,
     items \in {<<ItemA, ItemB>>, <<ItemA, ItemNoVariant>>}}
  \cup {OrderWithoutItems(id, n) : id \in OrderIds, n \in PhoneNotes}

Handle(w) ==
  \/ VerifyAndParse(w)
  \/ GeoLookup(w)
  \/ SeenIp(w)
  \/ SeenPhone(w)
  \/ BurstAndScore(w)
  \/ InsertRow(w)
  \/ Respond(w)

Deliver(w) ==
  /\ delivered < MaxDeliveries
  /\ \E order \in Orders : \E hm \in HmacHeaders(order), shop \in ShopHeaders :
       Receive(w, order, hm, shop)

Next == \E w \in Workers : Deliver(w) \/ Handle(w)

Spec == Init /\ [][Next]_vars


\* ------------------------------------------------- the scoring specification
\* one process, correctly signed deliveries, the note attributes and the
\* landing URL varied: client IP, stated country, UTM source, address
ValidHmac(order) == B64(HmacSha256(SHOPIFY_SECRET, Body(order)))

U_landing ==
  <<"/","p","?","r","e","f","=","x","&",
    "u","t","m","_","s","o","u","r","c","e","=",
    "i","n","s","t","a","g","r","a","m","#","t">>

OptAttr(name, values) == {<<>>} \cup {<<Attr(name, v)>> : v \in values}

ScoringNotes ==
  {ip \o c \o u \o a :
     ip \in {<<Attr(N_IpAddress, v)>> : v \in {IP_JIO, IP_AWS, IP_NOCOUNTRY, IP_BAD}},
     c \in OptAttr(N_Country, {C_INDIA, C_Nepal}),
     u \in OptAttr(N_UtmSource, {S_facebook}),
     a \in OptAttr(N_Address1, {<<"a"," ","b">>})}

ScoringOrders ==
  {OrderOf(<<"7">>, n, <<ItemA>>) : n \in ScoringNotes}
  \cup { OrderOf(<<"7">>, <<>>, <<ItemA>>),
         OrderOf(<<"7">>, <<Attr(N_IpAddress, IP_MISS), Attr(N_Country, C_Nepal)>>, <<ItemA>>),
         OrderOf(<<"7">>, <<Attr(N_IpAddress, IP_NOASN), Attr(N_Phone, <<" ","9","8">>)>>, <<ItemA>>),
         OrderOf(<<"7">>, <<Attr(N_Address1, <<"A"," ","a"," ","a">>)>>, <<ItemA>>),
         [OrderOf(<<"7">>, <<Attr(N_IpAddress, IP_AWS)>>, <<ItemA>>)
            EXCEPT !.id = <<"8">>] @@ [landing_site |-> U_landing] }

DeliverScoring ==
  /\ delivered < MaxScoringDeliveries
  /\ \E order \in ScoringOrders : Receive(1, order, ValidHmac(order), None)

NextScoring == DeliverScoring \/ Handle(1)

SpecScoring == Init /\ [][NextScoring]_vars

\* --------------------------------------------------- the burst specification
\* a run of distinct single-item orders without note attributes, numbered as
\* they are delivered, while the database clock advances
RECURSIVE ToDigits(_)
ToDigits(n) ==
  LET DigitChars == <<"0","1","2","3","4","5","6","7","8","9">>
      d == << DigitChars[(n % 10) + 1] >>
  IN IF n < 10 THEN d ELSE ToDigits(n \div 10) \o d

DeliverBurst(w) ==
  /\ delivered < MaxBurstDeliveries
  /\ LET order == OrderOf(ToDigits(delivered + 1), <<>>, <<ItemA>>)
     IN Receive(w, order, ValidHmac(order), None)

\* the row identifiers of these runs are all distinct, so a unique index on
\* row_id would change nothing: the schema is taken as the source shows it
InitBurst == Init /\ ~uniqueRowId

\* events arriving one after another at one process; a request is handled in far
\* less than a minute, so the clock advances between requests
TickBetweenRequests == h[1].pc = "idle" /\ Tick

NextBurst == TickBetweenRequests \/ DeliverBurst(1) \/ Handle(1)

SpecBurst == InitBurst /\ [][NextBurst]_vars

\* -------------------------------------------------- the race specification
\* the same run of orders handled by both processes at one instant of the clock
NextRace == \E w \in Workers : DeliverBurst(w) \/ Handle(w)

SpecRace == InitBurst /\ [][NextRace]_vars


\* ------------------------------------------------------------------ claims
\* the rows a delivery has inserted
RowsOf(d) == {r \in table : r.ctid[1] = d}

\* the request of worker w has its bucket and score
Classified(w) == h[w].pc \in {"insert", "200", "500"}

\* the signature header of the request of worker w is missing or is not the
\* HMAC-SHA256 of its raw body under the shop's secret
BadSignature(w) ==
  \/ h[w].hmac = None
  \/ h[w].hmac # B64(HmacSha256(SHOPIFY_SECRET, h[w].raw))

\* what the rules other than the platform/UTM rule add for the request of w
RiskBesidesPlatform(w) ==
  TelcoRisk(h[w].ipg) + SeenIpRisk(h[w].seen_ip) + SeenPhoneRisk(h[w].seen_phone)
  + BurstRisk(burst(h[w].count)) + EntropyRisk(h[w].note)
  + CountryRisk(h[w].note, h[w].ipg)

\* what the rules other than the country rule add for the request of w
RiskBesidesCountry(w) ==
  TelcoRisk(h[w].ipg) + PlatformRisk(h[w].ipg) + UtmRisk(h[w].utm)
  + SeenIpRisk(h[w].seen_ip) + SeenPhoneRisk(h[w].seen_phone)
  + BurstRisk(burst(h[w].count)) + EntropyRisk(h[w].note)

\* what the rules other than the repeated-phone rule add for the request of w
RiskBesidesPhone(w) ==
  TelcoRisk(h[w].ipg) + PlatformRisk(h[w].ipg) + UtmRisk(h[w].utm)
  + SeenIpRisk(h[w].seen_ip) + BurstRisk(burst(h[w].count))
  + EntropyRisk(h[w].note) + CountryRisk(h[w].note, h[w].ipg)

\* C1: the table never holds two rows with the same row_id, and no delivery fails
\* on its insert meeting an existing identifier (the second insert is a no-op and
\* the delivery completes).
C1_IdempotentPersistence ==
  /\ \A r1 \in table : \A r2 \in table : r1.row_id = r2.row_id => r1 = r2
  /\ \A w \in Workers : h[w].error # "UniqueViolation"

\* C2: a request whose signature header is missing or mismatched gets no further
\* than the 401: it is never parsed, no geo lookup, seen_before or burst query and
\* no insert is executed for it, and the table holds no row of it.
C2_RejectedWithoutEffects ==
  \A w \in Workers :
    (h[w].pc # "idle" /\ BadSignature(w)) =>
      /\ h[w].pc \in {"body", "401"}
      /\ h[w].ops = {}
      /\ RowsOf(h[w].delivery) = {}

\* C2 witness: a request carrying a header that does not match its body has been
\* answered 401 while the table holds the rows of an accepted delivery.
C2_Witness ==
  /\ table # {}
  /\ \E w \in Workers : h[w].pc = "401" /\ h[w].hmac # None /\ BadSignature(w)

\* C4: whenever some stored row holds the event's normalized phone (its digits)
\* when classify looks the phone up, the phone rule adds exactly 35 to the score,
\* and it adds nothing when no stored row holds it.
C4_RepeatedPhoneAdds35 ==
  \A w \in Workers :
    Classified(w) =>
      h[w].score = RiskBesidesPhone(w) + (IF h[w].phone_known THEN SeenPhonePoints ELSE 0)

\* C7: a request that ends on absent structure (no line_items, or a line item
\* without product_id or variant_id) has left no row in the table.
C7_NoPartialWrites ==
  \A w \in Workers :
    (h[w].pc = "500" /\ h[w].error = "KeyError") => RowsOf(h[w].delivery) = {}

\* C10: no row of a delivery is inserted before its assessment is computed, and
\* every row of one delivery carries the bucket, score, ip_checked and
\* location_match of that one assessment.
C10_OneAssessmentPerOrder ==
  /\ \A w \in Workers :
       /\ h[w].pc \in {"body", "401", "geo", "seen_ip", "seen_phone", "burst"}
            => RowsOf(h[w].delivery) = {}
       /\ Classified(w) =>
            \A r \in RowsOf(h[w].delivery) :
              /\ r.fraud_bucket = h[w].bucket
              /\ r.risk_score = h[w].score
              /\ r.ip_checked = h[w].ipg.found
              /\ r.location_match = FALSE
  /\ \A r1 \in table : \A r2 \in table :
       r1.ctid[1] = r2.ctid[1] =>
         /\ r1.fraud_bucket = r2.fraud_bucket
         /\ r1.risk_score = r2.risk_score
         /\ r1.ip_checked = r2.ip_checked
         /\ r1.location_match = r2.location_match

\* C10 witness: a delivery has inserted both rows of a two-item order although
\* classify, run again after the first insert, would give another score.
C10_Witness ==
  \E w \in Workers :
    /\ h[w].pc = "200"
    /\ Cardinality(RowsOf(h[w].delivery)) = 2
    /\ StampsPerItem(w).risk_score # h[w].score


\* C5 (as claimed): an event without note attributes (at most an unparseable
\* client IP), with no historical or burst signal firing, has no geo signal,
\* score 0 and bucket CLEAN.
ScenarioA(w) ==
  /\ Classified(w)
  /\ DOMAIN h[w].note \subseteq {S_ip_address}
  /\ ~IsIpAddress(h[w].ip)
  /\ ~h[w].seen_ip /\ ~h[w].seen_phone /\ ~burst(h[w].count)

C5_ScenarioA_ScoreZero ==
  \A w \in Workers :
    ScenarioA(w) => ~h[w].ipg.found /\ h[w].score = 0 /\ h[w].bucket = "CLEAN"

\* C5 (amended): such an event has no geo signal (ip_checked false on its rows),
\* score 20, which the address-entropy rule adds for the absent address, and
\* bucket CLEAN.
C5_ScenarioA_Score20 ==
  \A w \in Workers :
    ScenarioA(w) =>
      /\ ~h[w].ipg.found
      /\ h[w].score = EntropyPoints
      /\ h[w].bucket = "CLEAN"
      /\ \A r \in RowsOf(h[w].delivery) :
           ~r.ip_checked /\ r.risk_score = EntropyPoints /\ r.fraud_bucket = "CLEAN"

\* C5 witness: an event whose only note attribute is an unparseable client IP has
\* been scored and its row inserted.
C5_Witness ==
  \E w \in Workers :
    /\ ScenarioA(w)
    /\ h[w].ip = IP_BAD
    /\ h[w].pc = "200"
    /\ RowsOf(h[w].delivery) # {}

\* C8: the platform rule adds 15 once if the organization holds a platform token
\* or the UTM source is a social platform or both, and 0 if neither.
C8_PlatformRuleAddsOnce ==
  \A w \in Workers :
    Classified(w) =>
      h[w].score = RiskBesidesPlatform(w)
        + (IF \/ \E p \in PLATFORMS : Contains(OrgOf(h[w].ipg), p)
              \/ h[w].utm \in {S_facebook, S_instagram}
           THEN PlatformPoints ELSE 0)

\* C9: the country rule adds 40 exactly when a stated country and a resolved
\* country are both present and differ case-insensitively.
C9_CountryMismatchOnlyWhenBothPresent ==
  \A w \in Workers :
    Classified(w) =>
      h[w].score = RiskBesidesCountry(w)
        + (IF /\ Truthy(Get(h[w].note, S_country))
              /\ h[w].ipg.found
              /\ Truthy(h[w].ipg.country)
              /\ Lower(Get(h[w].note, S_country)) # Lower(h[w].ipg.country)
           THEN CountryPoints ELSE 0)


\* C3 (as claimed): an event evaluated with 12 rows recorded in the trailing
\* window (the 13th event) has the burst bonus in its score, and an event
\* evaluated with 11 (the 12th) has not.
C3_ThirteenthEventGetsBonus ==
  \A w \in Workers :
    Classified(w) =>
      /\ h[w].count = BurstThreshold => h[w].score = EntropyPoints + BurstPoints
      /\ h[w].count = BurstThreshold - 1 => h[w].score = EntropyPoints

\* C3 (amended): the bonus goes to an event evaluated with more than 12 rows
\* recorded in the trailing window, so to the 14th event (13 recorded); the 13th
\* event (12 recorded) and those before it do not receive it; the rows of an
\* event carry the score so decided.
C3_FourteenthEventGetsBonus ==
  \A w \in Workers :
    Classified(w) =>
      /\ h[w].count <= h[w].delivery - 1
      /\ h[w].count >= BurstThreshold + 1 => h[w].score = EntropyPoints + BurstPoints
      /\ h[w].count <= BurstThreshold => h[w].score = EntropyPoints
      /\ \A r \in RowsOf(h[w].delivery) : r.risk_score = h[w].score

\* C3 witness: the 13th event, evaluated with 12 recorded, was stored without the
\* bonus, and the 14th, evaluated with 13 recorded, has it.
C3_Witness ==
  /\ \E r \in table : r.ctid[1] = BurstThreshold + 1 /\ r.risk_score = EntropyPoints
  /\ \E w \in Workers :
       /\ h[w].pc = "200"
       /\ h[w].delivery = BurstThreshold + 2
       /\ h[w].count = BurstThreshold + 1
       /\ h[w].score = EntropyPoints + BurstPoints

\* C6: no lock spans burst-check-then-insert: a request waiting to run its burst
\* query can run it whatever the other process is doing, also when that process
\* has checked and not yet inserted; and a request omits the bonus exactly when
\* the count it read itself was at or below the threshold, whatever was inserted
\* in the meantime.
C6_NoLockAcrossCheckThenInsert ==
  \A w \in Workers :
    /\ h[w].pc = "burst" => ENABLED BurstAndScore(w)
    /\ Classified(w) =>
         (h[w].score = EntropyPoints <=> h[w].count <= BurstThreshold)

\* C6 witness: both processes read the same count of 12, both omitted the bonus,
\* both inserted, and the window now holds 14 rows.
C6_Witness ==
  \E w \in Workers : \E v \in Workers \ {w} :
    /\ h[w].pc = "200" /\ h[v].pc = "200"
    /\ h[w].count = BurstThreshold /\ h[v].count = BurstThreshold
    /\ h[w].score = EntropyPoints /\ h[v].score = EntropyPoints
    /\ RowsOf(h[w].delivery) # {} /\ RowsOf(h[v].delivery) # {}
    /\ WindowCount = BurstThreshold + 2

=============================================================================
